---- MODULE Spec2Model ----
(***************************************************************************)
(* Model of the per-group analysis engine of the quotation analysis tool   *)
(* (src/analyze.py).  Calendar dates are integers (day numbers), a         *)
(* timedelta is an integer difference, and a missing date (pd.NaT / None)  *)
(* is the value NaT.  Text cells are sequences of one-character strings so *)
(* that str().strip().lower() is computed, not assumed.                    *)
(***************************************************************************)
EXTENDS Integers, Sequences, FiniteSets, TLC

VARIABLES
    group_df,       \* the rows of one (Quotation_No, Catalog_No) group, in file order
    columns,        \* which optional columns the export has ("state", "period", "qty")
    header_start,   \* header validity start, or NaT
    header_end,     \* header validity end, or NaT
    ret,            \* what analyze_group returned: [gm, per_line], with its locals tr
    pc,           \* "input" before the call, "done" after it
    intervals,      \* argument of a direct compute_interval_union call
    union,          \* its result [total, merged]
    reunion,        \* result of calling it again on union.merged
    solve_args,     \* arguments <<gap_days, pattern_days>> of a direct solve_gap call
    solve_ret       \* what it returned: <<n>>, or <<>> for None

vars == <<group_df, columns, header_start, header_end, ret, pc,
          intervals, union, reunion, solve_args, solve_ret>>

gm       == ret.gm          \* group-level metrics
per_line == ret.per_line    \* per-line values
tr       == ret.tr          \* locals of analyze_group kept for inspection

NoResult == [gm |-> <<>>, per_line |-> <<>>, tr |-> <<>>]

-----------------------------------------------------------------------------
(* Program constants *)

TOLERANCE_DAYS == 5

PERIOD_BUCKETS ==
    << [name |-> "monthly",     target |-> 30,  tol |-> 10],
       [name |-> "bi-monthly",  target |-> 60,  tol |-> 10],
       [name |-> "quarterly",   target |-> 90,  tol |-> 10],
       [name |-> "4-month",     target |-> 120, tol |-> 10],
       [name |-> "semi-annual", target |-> 180, tol |-> 12],
       [name |-> "annual",      target |-> 365, tol |-> 15] >>

\* the threshold of the placeholder rule: (end - start).days < 4
PLACEHOLDER_DAYS == 4

\* a missing date: pd.NaT in a frame, None for h_start / h_end
NaT == -1

\* a missing quantity cell
QtyNaN == -1

\* a missing text cell (NaN); never equal to a sequence of single characters
NaN == <<"NaN">>

NA == "N/A"

-----------------------------------------------------------------------------
(* Small helpers *)

notna(d) == d # NaT

Abs(x) == IF x < 0 THEN -x ELSE x

Max2(a, b) == IF a > b THEN a ELSE b

RECURSIVE SumSeq(_)
SumSeq(s) == IF s = <<>> THEN 0 ELSE Head(s) + SumSeq(Tail(s))

\* the positions of s, in order (the index of a frame)
Indices(s) == [i \in 1..Len(s) |-> i]

\* PyRound as int(): the fraction is dropped
PyRound_Trunc(a, b) == a \div b

\* Python round(a / b) for b > 0: round half to even
PyRound(a, b) ==
    LET q == a \div b
        r == a % b
    IN  IF 2 * r < b THEN q
        ELSE IF 2 * r > b THEN q + 1
        ELSE IF q % 2 = 0 THEN q ELSE q + 1

-----------------------------------------------------------------------------
(* Text: str(x).strip().lower() *)

UpperAlpha == << "A","B","C","D","E","F","G","H","I","J","K","L","M",
                 "N","O","P","Q","R","S","T","U","V","W","X","Y","Z" >>
LowerAlpha == << "a","b","c","d","e","f","g","h","i","j","k","l","m",
                 "n","o","p","q","r","s","t","u","v","w","x","y","z" >>

Whitespace == {" ", "\t", "\n"}

PyStr(v) == IF v = NaN THEN <<"n","a","n">> ELSE v

RECURSIVE LStrip(_)
LStrip(s) == IF s # <<>> /\ Head(s) \in Whitespace THEN LStrip(Tail(s)) ELSE s

RECURSIVE RStrip(_)
RStrip(s) ==
    IF s # <<>> /\ s[Len(s)] \in Whitespace
    THEN RStrip(SubSeq(s, 1, Len(s) - 1)) ELSE s

Strip(s) == RStrip(LStrip(s))

LowerCh(c) ==
    IF \E i \in 1..26 : UpperAlpha[i] = c
    THEN LowerAlpha[CHOOSE i \in 1..26 : UpperAlpha[i] = c]
    ELSE c

Lower(s) == [i \in 1..Len(s) |-> LowerCh(s[i])]

STR_cancelled == <<"c","a","n","c","e","l","l","e","d">>
STR_once      == <<"o","n","c","e">>

-----------------------------------------------------------------------------
(* is_line_active *)

\* the date rule: both dates present and (end - start).days below the threshold
is_placeholder(row) ==
    notna(row.start) /\ notna(row.end) /\ (row.end - row.start) < PLACEHOLDER_DAYS

\* is_line_active comparing the period tag as it is written
is_line_active_NoStrip(row, cols) ==
    IF "state" \in cols /\ Lower(Strip(PyStr(row.state))) = STR_cancelled
    THEN FALSE
    ELSE IF "period" \in cols /\ PyStr(row.period) = STR_once
    THEN FALSE
    ELSE IF is_placeholder(row)
    THEN FALSE
    ELSE TRUE

is_line_active(row, cols) ==
    IF "state" \in cols /\ Lower(Strip(PyStr(row.state))) = STR_cancelled
    THEN FALSE
    ELSE IF "period" \in cols /\ Lower(Strip(PyStr(row.period))) = STR_once
    THEN FALSE
    ELSE IF is_placeholder(row)
    THEN FALSE
    ELSE TRUE

-----------------------------------------------------------------------------
(* map_to_bucket: first bucket whose range holds the duration *)

map_to_bucket(duration_days) ==
    LET hits == { i \in 1..Len(PERIOD_BUCKETS) :
                    Abs(duration_days - PERIOD_BUCKETS[i].target)
                        <= PERIOD_BUCKETS[i].tol }
    IN  IF hits = {}
        THEN [name |-> "irregular", days |-> duration_days]
        ELSE LET i == CHOOSE j \in hits : \A k \in hits : j <= k
             IN  [name |-> PERIOD_BUCKETS[i].name, days |-> PERIOD_BUCKETS[i].target]

-----------------------------------------------------------------------------
(* Sorting.  Rows and intervals are tuples whose first component is the   *)
(* start date.  Both sorts are stable.                                     *)

\* sorted(intervals, key=lambda x: x[0])
RECURSIVE InsertIv(_, _)
InsertIv(x, s) ==
    IF s = <<>> THEN <<x>>
    ELSE IF x[1] < Head(s)[1] THEN <<x>> \o s
    ELSE <<Head(s)>> \o InsertIv(x, Tail(s))

RECURSIVE sorted(_)
sorted(s) ==
    IF s = <<>> THEN <<>>
    ELSE InsertIv(s[Len(s)], sorted(SubSeq(s, 1, Len(s) - 1)))

\* DataFrame.sort_values(start_date): ascending, NaT last
StartBefore(a, b) == notna(a) /\ (b = NaT \/ a < b)

RECURSIVE InsertRow(_, _)
InsertRow(x, s) ==
    IF s = <<>> THEN <<x>>
    ELSE IF StartBefore(x[1], Head(s)[1]) THEN <<x>> \o s
    ELSE <<Head(s)>> \o InsertRow(x, Tail(s))

RECURSIVE sort_values(_)
sort_values(s) ==
    IF s = <<>> THEN <<>>
    ELSE InsertRow(s[Len(s)], sort_values(SubSeq(s, 1, Len(s) - 1)))

-----------------------------------------------------------------------------
(* compute_interval_union *)

\* MergeStep without the "if end > merged[-1][1]" test: a nested interval
\* pulls the block's end back
MergeStep_NoMax(merged, iv) ==
    LET last == merged[Len(merged)]
    IN  IF iv[1] <= last[2] + 1
        THEN [merged EXCEPT ![Len(merged)] = <<last[1], iv[2]>>]
        ELSE Append(merged, <<iv[1], iv[2]>>)

\* one iteration of the merge loop
MergeStep(merged, iv) ==
    LET last == merged[Len(merged)]
    IN  IF iv[1] <= last[2] + 1
        THEN IF iv[2] > last[2]
             THEN [merged EXCEPT ![Len(merged)] = <<last[1], iv[2]>>]
             ELSE merged
        ELSE Append(merged, <<iv[1], iv[2]>>)

RECURSIVE MergeLoop(_, _)
MergeLoop(merged, rest) ==
    IF rest = <<>> THEN merged
    ELSE MergeLoop(MergeStep(merged, Head(rest)), Tail(rest))

\* compute_interval_union looping over sorted_ivs instead of sorted_ivs[1:]
compute_interval_union_FromFirst(ivs) ==
    IF ivs = <<>> THEN [total |-> 0, merged |-> <<>>]
    ELSE LET sorted_ivs == sorted(ivs)
             merged == MergeLoop(<< <<sorted_ivs[1][1], sorted_ivs[1][2]>> >>,
                                 sorted_ivs)
         IN  [total  |-> SumSeq([i \in 1..Len(merged) |->
                                    merged[i][2] - merged[i][1] + 1]),
              merged |-> merged]

compute_interval_union(ivs) ==
    IF ivs = <<>> THEN [total |-> 0, merged |-> <<>>]
    ELSE LET sorted_ivs == sorted(ivs)
             merged == MergeLoop(<< <<sorted_ivs[1][1], sorted_ivs[1][2]>> >>,
                                 Tail(sorted_ivs))
         IN  [total  |-> SumSeq([i \in 1..Len(merged) |->
                                    merged[i][2] - merged[i][1] + 1]),
              merged |-> merged]

-----------------------------------------------------------------------------
(* detect_gaps: rows are <<start, end, idx>> tuples sorted by start *)

\* GapStep recording the start day of the next line as the last gap day
GapStep_EndAtStart(st, curr) ==
    LET gap_days == (curr[1] - st.running_end) - 1
        found    == gap_days > TOLERANCE_DAYS
    IN  [gaps  |-> IF found
                   THEN Append(st.gaps, [gap_start |-> st.running_end + 1,
                                         gap_end   |-> curr[1],
                                         gap_days  |-> gap_days])
                   ELSE st.gaps,
         running_end |-> IF curr[2] > st.running_end THEN curr[2] ELSE st.running_end]

\* GapStep comparing against the previous row's end, not the running maximum
GapStep_PrevEnd(st, curr) ==
    LET gap_days == (curr[1] - st.running_end) - 1
        found    == gap_days > TOLERANCE_DAYS
    IN  [gaps  |-> IF found
                   THEN Append(st.gaps, [gap_start |-> st.running_end + 1,
                                         gap_end   |-> curr[1] - 1,
                                         gap_days  |-> gap_days])
                   ELSE st.gaps,
         running_end |-> curr[2]]

\* GapStep with "gap_days >= TOLERANCE_DAYS"
GapStep_Ge(st, curr) ==
    LET gap_days == (curr[1] - st.running_end) - 1
        found    == gap_days >= TOLERANCE_DAYS
    IN  [gaps  |-> IF found
                   THEN Append(st.gaps, [gap_start |-> st.running_end + 1,
                                         gap_end   |-> curr[1] - 1,
                                         gap_days  |-> gap_days])
                   ELSE st.gaps,
         running_end |-> IF curr[2] > st.running_end THEN curr[2] ELSE st.running_end]

\* one iteration of the walk
GapStep(st, curr) ==
    LET gap_days == (curr[1] - st.running_end) - 1
        found    == gap_days > TOLERANCE_DAYS
    IN  [gaps  |-> IF found
                   THEN Append(st.gaps, [gap_start |-> st.running_end + 1,
                                         gap_end   |-> curr[1] - 1,
                                         gap_days  |-> gap_days])
                   ELSE st.gaps,
         running_end |-> IF curr[2] > st.running_end THEN curr[2] ELSE st.running_end]

RECURSIVE GapLoop(_, _)
GapLoop(st, rest) ==
    IF rest = <<>> THEN st ELSE GapLoop(GapStep(st, Head(rest)), Tail(rest))

GapWalk(rows) ==
    IF rows = <<>> THEN [gaps |-> <<>>, running_end |-> NaT]
    ELSE GapLoop([gaps |-> <<>>, running_end |-> rows[1][2]], Tail(rows))

detect_gaps(rows) == GapWalk(rows).gaps

-----------------------------------------------------------------------------
(* solve_gap: <<n>> when the gap fits n whole pattern lengths, <<>> for None *)

\* solve_gap with int(ratio) in place of round(ratio)
solve_gap_Trunc(gap_days, pattern_days) ==
    IF pattern_days = 0 \/ pattern_days <= 0 THEN <<>>
    ELSE LET n == gap_days \div pattern_days
         IN  IF n < 1 THEN <<>>
             ELSE IF Abs(gap_days - n * pattern_days) <= TOLERANCE_DAYS THEN <<n>>
             ELSE <<>>

\* solve_gap without the "n < 1" test
solve_gap_ZeroLines(gap_days, pattern_days) ==
    IF pattern_days = 0 \/ pattern_days <= 0 THEN <<>>
    ELSE LET n == PyRound(gap_days, pattern_days)
         IN  IF Abs(gap_days - n * pattern_days) <= TOLERANCE_DAYS THEN <<n>>
             ELSE <<>>

solve_gap(gap_days, pattern_days) ==
    IF pattern_days = 0 \/ pattern_days <= 0 THEN <<>>
    ELSE LET n == PyRound(gap_days, pattern_days)
         IN  IF n < 1 THEN <<>>
             ELSE IF Abs(gap_days - n * pattern_days) <= TOLERANCE_DAYS THEN <<n>>
             ELSE <<>>

-----------------------------------------------------------------------------
(* collections.Counter and max(): insertion order decides between equals *)

\* the distinct elements of s in order of first occurrence (dict key order)
RECURSIVE KeysLoop(_, _)
KeysLoop(acc, rest) ==
    IF rest = <<>> THEN acc
    ELSE KeysLoop(IF \E j \in 1..Len(acc) : acc[j] = Head(rest)
                  THEN acc ELSE Append(acc, Head(rest)),
                  Tail(rest))

Keys(s) == KeysLoop(<<>>, s)

Count(s, x) == Cardinality({i \in 1..Len(s) : s[i] = x})

\* max(keys, key=...): the position of the first of the largest values
FirstMaxIdx(vals) ==
    CHOOSE j \in 1..Len(vals) :
        /\ \A k \in 1..Len(vals) : vals[k] <= vals[j]
        /\ \A k \in 1..(j-1) : vals[k] < vals[j]

-----------------------------------------------------------------------------
(* analyze_group.  Values that the code holds as either a number or the    *)
(* text "N/A" / "no gap" are <<v>> for the number and <<>> for the text;   *)
(* group_start / group_end are a day number, or NaT for "N/A".  A label    *)
(* built by an f-string is the tuple of its parts.                         *)

NoGap == <<>>
NAval == <<>>

\* "dur or 0"
OrZero(opt) == IF opt = <<>> THEN 0 ELSE opt[1]

\* duration, bucket and display label of row i (the per-line loop body)
LineBucket(row, is_inf, h_start, h_end) ==
    IF is_inf
    THEN LET eff_s == IF notna(row.start) THEN row.start ELSE h_start
             eff_e == IF notna(row.end)   THEN row.end   ELSE h_end
         IN  IF notna(eff_s) /\ notna(eff_e)
             THEN LET dur == (eff_e - eff_s) + 1
                      b   == map_to_bucket(dur)
                      tag == IF row.start = NaT /\ row.end = NaT THEN "renewable"
                             ELSE IF row.start = NaT THEN "open-start"
                             ELSE "open-end"
                  IN  [dur |-> <<dur>>, bname |-> b.name, bdays |-> b.days,
                       b_display |-> <<tag, b.name>>]
             ELSE [dur |-> <<>>, bname |-> "open-date", bdays |-> 0,
                   b_display |-> <<"open-date">>]
    ELSE LET dur == IF notna(row.start) /\ notna(row.end)
                    THEN <<(row.end - row.start) + 1>> ELSE <<>>
         IN  IF dur # <<>> /\ dur[1] > 0
             THEN LET b == map_to_bucket(dur[1])
                  IN  [dur |-> dur, bname |-> b.name, bdays |-> b.days,
                       b_display |-> <<b.name>>]
             ELSE [dur |-> dur, bname |-> "invalid", bdays |-> 0,
                   b_display |-> <<"invalid">>]

\* EffectiveFrame without the dropna on the effective dates
EffectiveFrame_NoDrop(active_df, h_start, h_end) ==
    LET Fill(r) == << IF r[1] = NaT THEN h_start ELSE r[1],
                      IF r[2] = NaT THEN h_end   ELSE r[2],
                      r[3] >>
        filled  == [k \in 1..Len(active_df) |-> Fill(active_df[k])]
    IN  sort_values(filled)

\* the date-completeness sets and the effective-date frame
EffectiveFrame(active_df, h_start, h_end) ==
    LET Fill(r) == << IF r[1] = NaT THEN h_start ELSE r[1],
                      IF r[2] = NaT THEN h_end   ELSE r[2],
                      r[3] >>
        filled  == [k \in 1..Len(active_df) |-> Fill(active_df[k])]
    IN  sort_values(SelectSeq(filled, LAMBDA r : notna(r[1]) /\ notna(r[2])))

\* BucketVote giving a shared top count to the bucket with the fewest days
BucketVote_FewestDays(bucket_names, durations) ==
    LET keys        == Keys(bucket_names)
        votes       == [k \in 1..Len(keys) |-> Count(bucket_names, keys[k])]
        first       == FirstMaxIdx(votes)
        top_count   == votes[first]
        tied        == SelectSeq(keys, LAMBDA b : Count(bucket_names, b) = top_count)
        bucket_total_days ==
            [t \in 1..Len(tied) |->
                SumSeq([k \in 1..Len(bucket_names) |->
                          IF bucket_names[k] = tied[t] THEN durations[k] ELSE 0])]
    IN  [bucket |-> IF Len(tied) > 1
                    THEN tied[FirstMaxIdx([t \in 1..Len(tied) |-> 0 - bucket_total_days[t]])]
                    ELSE keys[first],
         count  |-> top_count,
         tied   |-> tied]

\* BucketVote keeping most_common(1) when the top count is shared
BucketVote_NoTieBreak(bucket_names, durations) ==
    LET keys        == Keys(bucket_names)
        votes       == [k \in 1..Len(keys) |-> Count(bucket_names, keys[k])]
        first       == FirstMaxIdx(votes)
        top_count   == votes[first]
        tied        == SelectSeq(keys, LAMBDA b : Count(bucket_names, b) = top_count)
    IN  [bucket |-> keys[first],
         count  |-> top_count,
         tied   |-> tied]

\* the winner of the bucket vote: [bucket, count, tied]
BucketVote(bucket_names, durations) ==
    LET keys        == Keys(bucket_names)
        votes       == [k \in 1..Len(keys) |-> Count(bucket_names, keys[k])]
        first       == FirstMaxIdx(votes)
        top_count   == votes[first]
        tied        == SelectSeq(keys, LAMBDA b : Count(bucket_names, b) = top_count)
        bucket_total_days ==
            [t \in 1..Len(tied) |->
                SumSeq([k \in 1..Len(bucket_names) |->
                          IF bucket_names[k] = tied[t] THEN durations[k] ELSE 0])]
    IN  [bucket |-> IF Len(tied) > 1 THEN tied[FirstMaxIdx(bucket_total_days)]
                    ELSE keys[first],
         count  |-> top_count,
         tied   |-> tied]

\* the representative duration of the winning bucket: [days, raised]
WinningDays(winning_bucket, bucket_names, durations) ==
    IF winning_bucket = "irregular"
    THEN LET irr == SelectSeq(Indices(bucket_names),
                              LAMBDA k : bucket_names[k] = "irregular")
             irr_durs == sorted([k \in 1..Len(irr) |-> <<durations[irr[k]]>>])
         IN  [days   |-> IF irr_durs # <<>>
                         THEN irr_durs[(Len(irr_durs) \div 2) + 1][1] ELSE 0,
              raised |-> FALSE]
    ELSE LET hit == {i \in 1..Len(PERIOD_BUCKETS) :
                        PERIOD_BUCKETS[i].name = winning_bucket}
         IN  IF hit = {}
             THEN [days |-> 0, raised |-> TRUE]     \* next() raises StopIteration
             ELSE [days |-> PERIOD_BUCKETS[CHOOSE i \in hit : \A j \in hit : i <= j].target,
                   raised |-> FALSE]

\* ActiveQtys reading only the lines that have both of their own dates
ActiveQtys_DatedOnly(df, active_df, cols) ==
    IF "qty" \in cols
    THEN LET dated == SelectSeq(active_df, LAMBDA r : notna(r[1]) /\ notna(r[2]))
         IN  SelectSeq([k \in 1..Len(dated) |-> df[dated[k][3]].qty],
                       LAMBDA q : q # QtyNaN)
    ELSE <<>>

\* the non-null quantities of the active lines, in active_df order
\* (a missing qty column raises KeyError: the list is empty)
ActiveQtys(df, active_df, cols) ==
    IF "qty" \in cols
    THEN SelectSeq([k \in 1..Len(active_df) |-> df[active_df[k][3]].qty],
                   LAMBDA q : q # QtyNaN)
    ELSE <<>>

\* QtyVote keeping the value most_common(1) returns when counts are shared
QtyVote_FirstSeen(active_qtys) ==
    IF active_qtys = <<>> THEN [canonical_qty |-> <<>>, count |-> 0]
    ELSE LET keys == Keys(active_qtys)
             counts == [k \in 1..Len(keys) |-> Count(active_qtys, keys[k])]
             first == FirstMaxIdx(counts)
         IN  [canonical_qty |-> <<keys[first]>>, count |-> counts[first]]

\* the quantity vote: [canonical_qty, count], canonical_qty <<>> for None
QtyVote(active_qtys) ==
    IF active_qtys = <<>> THEN [canonical_qty |-> <<>>, count |-> 0]
    ELSE LET keys == Keys(active_qtys)
             counts == [k \in 1..Len(keys) |-> Count(active_qtys, keys[k])]
             top_qty_count == counts[FirstMaxIdx(counts)]
             tied_qtys == {keys[k] : k \in {j \in 1..Len(keys) : counts[j] = top_qty_count}}
         IN  [canonical_qty |-> <<CHOOSE q \in tied_qtys : \A r \in tied_qtys : r <= q>>,
              count |-> top_qty_count]

\* overlap_days without the clamp at zero
OverlapDays_NoClamp(sum_durs, coverage) == sum_durs - coverage

\* overlap_days: sum of the line durations minus the union, never below zero
OverlapDays(sum_durs, coverage) == Max2(0, sum_durs - coverage)

\* overlap_count: intervals that start on or before the running maximum end
RECURSIVE OverlapLoop(_, _, _)
OverlapLoop(running_end, count, rest) ==
    IF rest = <<>> THEN count
    ELSE LET iv == Head(rest)
         IN  OverlapLoop(IF iv[2] > running_end THEN iv[2] ELSE running_end,
                         IF iv[1] <= running_end THEN count + 1 ELSE count,
                         Tail(rest))

\* OverlapCount counting only the intervals that start before an earlier end
OverlapCount_Strict(ivs) ==
    LET srt == sorted(ivs)
    IN  Cardinality({k \in 2..Len(srt) : \E j \in 1..(k - 1) : srt[k][1] < srt[j][2]})

OverlapCount(ivs) ==
    IF ivs = <<>> THEN 0
    ELSE LET s == sorted(ivs) IN OverlapLoop(s[1][2], 0, Tail(s))

RECURSIVE MinStart(_)
MinStart(rows) ==
    IF Len(rows) = 1 THEN rows[1][1]
    ELSE LET m == MinStart(Tail(rows)) IN IF rows[1][1] < m THEN rows[1][1] ELSE m

RECURSIVE MaxEnd(_)
MaxEnd(rows) ==
    IF Len(rows) = 1 THEN rows[1][2]
    ELSE LET m == MaxEnd(Tail(rows)) IN IF rows[1][2] > m THEN rows[1][2] ELSE m

\* WithinTolerance without abs(): any negative difference passes
WithinTolerance_NoAbs(diff) == diff <= TOLERANCE_DAYS

\* start_ok / end_ok: abs(diff) <= TOLERANCE_DAYS
WithinTolerance(diff) == Abs(diff) <= TOLERANCE_DAYS

\* header-edge gaps recorded for every misaligned edge, early or late
HeaderGaps_AnyMisalignment(start_ok, start_diff, end_ok, end_diff) ==
    (IF ~start_ok
     THEN << [kind |-> "before group", gap_days |-> Abs(start_diff)] >>
     ELSE <<>>)
    \o (IF ~end_ok
        THEN << [kind |-> "after group", gap_days |-> Abs(end_diff)] >>
        ELSE <<>>)

\* header-edge gaps: a start gap when the group begins after the header start,
\* an end gap when it ends before the header end
HeaderGaps(start_ok, start_diff, end_ok, end_diff) ==
    (IF ~start_ok /\ start_diff > TOLERANCE_DAYS
     THEN << [kind |-> "before group", gap_days |-> start_diff] >>
     ELSE <<>>)
    \o (IF ~end_ok /\ end_diff < -TOLERANCE_DAYS
        THEN << [kind |-> "after group", gap_days |-> Abs(end_diff)] >>
        ELSE <<>>)

\* the period flag given to every active line, voting or not
PeriodOutlierFlag_AllActive(is_active_line, in_active_buckets, bname, winning_bucket) ==
    IF is_active_line
    THEN IF bname # winning_bucket THEN "YES" ELSE "NO"
    ELSE NA

\* is_period_outlier of one line: active voting line whose bucket is not the
\* winning bucket
PeriodOutlierFlag(is_active_line, in_active_buckets, bname, winning_bucket) ==
    IF is_active_line
    THEN IF in_active_buckets
         THEN IF bname # winning_bucket THEN "YES" ELSE "NO"
         ELSE NA
    ELSE NA

\* LinesToAdd reporting "no gap" whenever nothing is to be added
LinesToAdd_ZeroIsNoGap(total_to_add, total_gaps) ==
    IF total_to_add > 0 THEN <<total_to_add>> ELSE NoGap

\* gm["lines_to_add"]: the total, or "no gap" when there is no gap at all
LinesToAdd(total_to_add, total_gaps) ==
    IF total_to_add > 0 THEN <<total_to_add>>
    ELSE IF total_gaps = 0 THEN NoGap ELSE <<0>>

\* the result when no line is active (the early return)
EmptyGroupMetrics(total_lines) ==
    [ group_line_count        |-> total_lines,
      group_active_line_count |-> 0,
      group_start             |-> NaT,
      group_end               |-> NaT,
      group_span_days         |-> 0,
      actual_coverage_days    |-> 0,
      inferred_period_pattern |-> NA,
      inferred_period_days    |-> NAval,
      avg_period_days         |-> NAval,
      period_confidence_pct   |-> NAval,
      canonical_qty           |-> NAval,
      qty_confidence_pct      |-> NAval,
      gap_days                |-> 0,
      gap_count               |-> 0,
      overlap_days            |-> 0,
      overlap_count           |-> 0,
      header_aligned          |-> NA,
      start_alignment         |-> [kind |-> NA, days |-> 0],
      end_alignment           |-> [kind |-> NA, days |-> 0],
      lines_to_add            |-> NoGap,
      gap_list                |-> <<>>,
      solution_list           |-> <<>>,
      raised                  |-> FALSE ]

analyze_group(df, hs, he, cols) ==
    LET total_lines == Len(df)
        \* 1. line counts
        active_mask == [i \in 1..Len(df) |-> is_line_active(df[i], cols)]
        active_idx  == SelectSeq(Indices(df), LAMBDA i : active_mask[i])
        active_df   == sort_values([k \in 1..Len(active_idx) |->
                          <<df[active_idx[k]].start, df[active_idx[k]].end, active_idx[k]>>])
        n_active    == Len(active_df)
        h_start     == hs
        h_end       == he
        active_set  == {active_idx[k] : k \in 1..Len(active_idx)}
        fully_infinite_set == {i \in active_set : df[i].start = NaT /\ df[i].end = NaT}
        infinite_set       == {i \in active_set : df[i].start = NaT \/ df[i].end = NaT}
        has_dated            == \E i \in active_set : i \notin infinite_set
        has_infinite_overlap == fully_infinite_set # {} /\ has_dated
        eff_df      == EffectiveFrame(active_df, h_start, h_end)
        eff_set     == {eff_df[k][3] : k \in 1..Len(eff_df)}
        \* per-line duration + bucket
        info        == [i \in 1..Len(df) |->
                          LineBucket(df[i], i \in infinite_set, h_start, h_end)]
        voters      == SelectSeq(Indices(df), LAMBDA i : active_mask[i] /\ i \in eff_set)
        durations   == [k \in 1..Len(voters) |-> OrZero(info[voters[k]].dur)]
        bucket_names == [k \in 1..Len(voters) |-> info[voters[k]].bname]
        \* 2. period pattern
        vote        == BucketVote(bucket_names, durations)
        winning_bucket == IF voters = <<>> THEN "irregular" ELSE vote.bucket
        winning_count  == IF voters = <<>> THEN n_active ELSE vote.count
        wd          == IF voters = <<>> THEN [days |-> 0, raised |-> FALSE]
                       ELSE WinningDays(winning_bucket, bucket_names, durations)
        winning_days == wd.days
        valid_durs  == SelectSeq(durations, LAMBDA d : d > 0)
        \* 3. quantity pattern
        active_qtys == ActiveQtys(df, active_df, cols)
        qv          == QtyVote(active_qtys)
        canonical_qty == qv.canonical_qty
        \* 4. coverage
        ivs         == [k \in 1..Len(eff_df) |-> <<eff_df[k][1], eff_df[k][2]>>]
        group_start == IF eff_df = <<>> THEN h_start ELSE MinStart(eff_df)
        group_end   == IF eff_df = <<>> THEN h_end   ELSE MaxEnd(eff_df)
        span        == IF eff_df = <<>> THEN 0 ELSE (group_end - group_start) + 1
        cu          == compute_interval_union(ivs)
        coverage    == IF eff_df = <<>> THEN 0 ELSE cu.total
        gap_days    == IF eff_df = <<>> THEN 0 ELSE span - coverage
        \* 5. gaps and overlap
        gaps        == IF eff_df # <<>> THEN detect_gaps(eff_df) ELSE <<>>
        sum_durs    == SumSeq([k \in 1..Len(ivs) |-> (ivs[k][2] - ivs[k][1]) + 1])
        overlap     == IF ivs # <<>> THEN OverlapDays(sum_durs, coverage) ELSE 0
        overlap_count == OverlapCount(ivs)
        \* 6. header alignment
        header_dates_available == notna(hs) /\ notna(he)
        group_dates_available  == notna(group_start) /\ notna(group_end)
        evaluated   == header_dates_available /\ group_dates_available
        start_diff  == IF evaluated THEN group_start - hs ELSE 0
        end_diff    == IF evaluated THEN group_end - he ELSE 0
        start_ok    == IF evaluated THEN WithinTolerance(start_diff) ELSE TRUE
        end_ok      == IF evaluated THEN WithinTolerance(end_diff) ELSE TRUE
        \* 7. lines to add
        all_gaps    == [k \in 1..Len(gaps) |-> [kind |-> "internal", gap_days |-> gaps[k].gap_days]]
                       \o HeaderGaps(start_ok, start_diff, end_ok, end_diff)
        solution    == [k \in 1..Len(all_gaps) |->
                          IF winning_bucket # "irregular"
                          THEN solve_gap(all_gaps[k].gap_days, winning_days)
                          ELSE <<>>]
        total_to_add == SumSeq([k \in 1..Len(solution) |-> OrZero(solution[k])])
        total_gaps  == Len(all_gaps)
        \* 8. per-line outlier flags
        PeriodOutlier(i) ==
            PeriodOutlierFlag(i \in active_set,
                              \E k \in 1..Len(voters) : voters[k] = i,
                              info[i].bname, winning_bucket)
        QtyOutlier(i) ==
            IF i \notin active_set THEN NA
            ELSE IF canonical_qty = <<>> THEN NA
            ELSE IF df[i].qty # canonical_qty[1] THEN "YES" ELSE "NO"
        Label(i) == IF active_mask[i] THEN info[i].b_display
                    ELSE Append(info[i].b_display, "(excluded)")
    IN
    IF n_active = 0
    THEN [ gm |-> EmptyGroupMetrics(total_lines),
           per_line |-> [i \in 1..Len(df) |->
                           [line_period_bucket |-> Label(i),
                            is_period_outlier  |-> NA,
                            is_qty_outlier     |-> NA]],
           tr |-> [active_mask |-> active_mask, eff_df |-> <<>>, intervals |-> <<>>,
                   merged |-> <<>>, gaps |-> <<>>, voters |-> <<>>,
                   durations |-> <<>>, bucket_names |-> <<>>, tied_buckets |-> <<>>,
                   winning_count |-> 0, active_qtys |-> <<>>, qty_count |-> 0,
                   all_gaps |-> <<>>, start_diff |-> 0, end_diff |-> 0,
                   has_infinite_overlap |-> has_infinite_overlap] ]
    ELSE [ gm |->
           [ group_line_count        |-> total_lines,
             group_active_line_count |-> n_active,
             group_start             |-> group_start,
             group_end               |-> group_end,
             group_span_days         |-> span,
             actual_coverage_days    |-> coverage,
             inferred_period_pattern |-> winning_bucket,
             inferred_period_days    |-> <<winning_days>>,
             avg_period_days         |-> IF valid_durs # <<>>
                                         THEN <<PyRound(SumSeq(valid_durs), Len(valid_durs))>>
                                         ELSE NAval,
             period_confidence_pct   |-> <<PyRound(winning_count * 100, n_active)>>,
             canonical_qty           |-> canonical_qty,
             qty_confidence_pct      |-> IF canonical_qty # <<>>
                                         THEN <<PyRound(qv.count * 100, n_active)>>
                                         ELSE NAval,
             gap_days                |-> gap_days,
             gap_count               |-> Len(gaps),
             overlap_days            |-> overlap,
             overlap_count           |-> overlap_count,
             header_aligned          |-> IF evaluated
                                         THEN IF start_ok /\ end_ok THEN "YES" ELSE "NO"
                                         ELSE NA,
             start_alignment         |-> IF ~evaluated THEN [kind |-> NA, days |-> 0]
                                         ELSE IF start_ok THEN [kind |-> "aligned", days |-> 0]
                                         ELSE IF start_diff > 0
                                              THEN [kind |-> "late", days |-> start_diff]
                                              ELSE [kind |-> "early", days |-> Abs(start_diff)],
             end_alignment           |-> IF ~evaluated THEN [kind |-> NA, days |-> 0]
                                         ELSE IF end_ok THEN [kind |-> "aligned", days |-> 0]
                                         ELSE IF end_diff < 0
                                              THEN [kind |-> "early", days |-> Abs(end_diff)]
                                              ELSE [kind |-> "late", days |-> end_diff],
             lines_to_add            |-> LinesToAdd(total_to_add, total_gaps),
             gap_list                |-> all_gaps,
             solution_list           |-> solution,
             raised                  |-> wd.raised ],
           per_line |-> [i \in 1..Len(df) |->
                           [line_period_bucket |-> Label(i),
                            is_period_outlier  |-> PeriodOutlier(i),
                            is_qty_outlier     |-> QtyOutlier(i)]],
           tr |-> [active_mask |-> active_mask, eff_df |-> eff_df, intervals |-> ivs,
                   merged |-> cu.merged,
                   gaps |-> gaps, voters |-> voters,
                   durations |-> durations, bucket_names |-> bucket_names,
                   tied_buckets |-> IF voters = <<>> THEN <<>> ELSE vote.tied,
                   winning_count |-> winning_count,
                   active_qtys |-> active_qtys, qty_count |-> qv.count,
                   all_gaps |-> all_gaps, start_diff |-> start_diff,
                   end_diff |-> end_diff,
                   has_infinite_overlap |-> has_infinite_overlap] ]

-----------------------------------------------------------------------------
(* Inputs *)

Txt_cancelled   == <<"c","a","n","c","e","l","l","e","d">>
Txt_Cancelled   == <<"C","a","n","c","e","l","l","e","d">>
Txt_CANCELLED_p == <<" ","C","A","N","C","E","L","L","E","D"," ">>
Txt_RELEASED    == <<"R","E","L","E","A","S","E","D">>
Txt_cancel      == <<"c","a","n","c","e","l">>
Txt_once        == <<"o","n","c","e">>
Txt_Once_p      == <<" ","O","n","c","e">>
Txt_monthly     == <<"m","o","n","t","h","l","y">>

AllColumns == {"state", "period", "qty"}

Row(s, e) == [start |-> s, end |-> e, qty |-> 100, state |-> Txt_RELEASED, period |-> NaN]

\* bounds of the direct compute_interval_union calls
MaxDay == 4
MaxIvs == 3

Days == 0..MaxDay

NoGroup ==
    /\ group_df = <<>>
    /\ columns = AllColumns
    /\ header_start = NaT
    /\ header_end = NaT
    /\ ret = NoResult

NoUnion ==
    /\ intervals = <<>>
    /\ union = <<>>
    /\ reunion = <<>>

NoSolve ==
    /\ solve_args = <<>>
    /\ solve_ret = <<>>

NotCalled ==
    /\ ret = NoResult
    /\ pc = "input"

\* one line whose state, period and dates vary (the classifier's cases)
MaxSpan == 6

StateTexts  == {Txt_cancelled, Txt_Cancelled, Txt_CANCELLED_p, Txt_RELEASED, Txt_cancel, NaN}
PeriodTexts == {Txt_once, Txt_Once_p, Txt_monthly, NaN}

InitActive ==
    /\ NoUnion
    /\ NoSolve
    /\ NotCalled
    /\ header_start = 0
    /\ header_end = 30
    /\ columns \in {AllColumns, AllColumns \ {"state"}, AllColumns \ {"period"}}
    /\ \E s \in {NaT, 10}, e \in {NaT} \cup (8..(10 + MaxSpan)),
          st \in StateTexts, p \in PeriodTexts :
          group_df = << [start |-> s, end |-> e, qty |-> 100, state |-> st, period |-> p] >>

\* groups of dated and open lines under several header windows
MaxLines == 3

CoverRows ==
    { Row(0, 5), Row(0, 10), Row(0, 25), Row(12, 20), Row(16, 25), Row(12, 16),
      Row(12, 14), Row(26, 30),
      Row(NaT, NaT), Row(NaT, 10), Row(12, NaT), Row(16, NaT) }

CoverHeaders == { <<NaT, NaT>>, <<0, 25>>, <<0, 8>>, <<NaT, 25>>, <<0, NaT>> }

InitCover ==
    /\ NoUnion
    /\ NoSolve
    /\ NotCalled
    /\ columns = AllColumns
    /\ \E h \in CoverHeaders : header_start = h[1] /\ header_end = h[2]
    /\ \E n \in 1..MaxLines : group_df \in [1..n -> CoverRows]

\* groups whose lines fall into different cadence buckets
VoteRows ==
    { Row(0, 29), Row(0, 59), Row(100, 159), Row(0, 364), Row(0, 199), Row(0, 44),
      Row(0, NaT), Row(NaT, NaT) }

VoteHeaders == { <<NaT, NaT>>, <<0, 364>>, <<0, 59>> }

InitVote ==
    /\ NoUnion
    /\ NoSolve
    /\ NotCalled
    /\ columns = AllColumns
    /\ \E h \in VoteHeaders : header_start = h[1] /\ header_end = h[2]
    /\ \E n \in 1..MaxLines : group_df \in [1..n -> VoteRows]

\* groups of up to five lines: quarterly and monthly lines, and a line with
\* no dates that resolves only when the header has dates
MaxConfLines == 5

ConfRows == { Row(0, 88), Row(0, 89), Row(0, 90), Row(0, 29), Row(NaT, NaT) }

ConfHeaders == { <<NaT, NaT>>, <<0, 89>> }

InitConf ==
    /\ NoUnion
    /\ NoSolve
    /\ NotCalled
    /\ columns = AllColumns
    /\ \E h \in ConfHeaders : header_start = h[1] /\ header_end = h[2]
    /\ \E n \in 1..MaxConfLines : group_df \in [1..n -> ConfRows]

\* groups whose lines differ in quantity: dated lines, cancelled lines, and
\* lines without dates that resolve only when the header has dates
MaxQtyLines == 4

QRow(s, e, q, st) == [start |-> s, end |-> e, qty |-> q, state |-> st, period |-> NaN]

QtyRows ==
    { QRow(0, 89, 100, Txt_RELEASED), QRow(0, 89, 200, Txt_RELEASED),
      QRow(0, 89, QtyNaN, Txt_RELEASED),
      QRow(0, 89, 100, Txt_cancelled), QRow(0, 89, 200, Txt_cancelled),
      QRow(NaT, NaT, 100, Txt_RELEASED), QRow(NaT, NaT, 200, Txt_RELEASED) }

QtyHeaders == { <<NaT, NaT>>, <<0, 89>> }

InitQty ==
    /\ NoUnion
    /\ NoSolve
    /\ NotCalled
    /\ columns \in {AllColumns, AllColumns \ {"qty"}}
    /\ \E h \in QtyHeaders : header_start = h[1] /\ header_end = h[2]
    /\ \E n \in 1..MaxQtyLines : group_df \in [1..n -> QtyRows]

\* two lines of one length separated by a gap of every size up to MaxGap,
\* alone or under a header that leaves room before and after them
MaxGap == 200

LineLengths == {30, 45, 90}

SolveGroups ==
    { << Row(s, s + len - 1), Row(s + len + g, s + 2 * len + g - 1) >> :
         s \in {0, 30}, len \in LineLengths, g \in 0..MaxGap }

SolveHeaders == { <<NaT, NaT>>, <<0, 700>>, <<0, 450>> }

InitSolve ==
    /\ NoUnion
    /\ NoSolve
    /\ NotCalled
    /\ columns = AllColumns
    /\ \E h \in SolveHeaders : header_start = h[1] /\ header_end = h[2]
    /\ group_df \in SolveGroups

\* one line whose start and end lie up to MaxShift days before or after the
\* header bounds, alone or next to a line that lies inside the header
MaxShift == 6

AlignStarts == (10 - MaxShift)..(10 + MaxShift)
AlignEnds   == (40 - MaxShift)..(40 + MaxShift)

AlignRows ==
    { Row(s, e) : s \in AlignStarts \cup {NaT}, e \in AlignEnds \cup {NaT} }

AlignHeaders == { <<10, 40>>, <<NaT, 40>>, <<10, NaT>>, <<NaT, NaT>> }

InitAlign ==
    /\ NoUnion
    /\ NoSolve
    /\ NotCalled
    /\ columns = AllColumns
    /\ \E h \in AlignHeaders : header_start = h[1] /\ header_end = h[2]
    /\ \/ \E r \in AlignRows :
             group_df \in { <<r>>, <<r, Row(15, 35)>>, <<Row(15, 35), r>> }
       \/ \E s \in AlignStarts, e \in AlignEnds :
             group_df = <<Row(s, 20), Row(30, e)>>     \* with a gap inside

\* groups whose lines arrive in any order: two monthly lines beside a
\* 15-day and a 45-day line, so that two cadences can tie on votes and days
MaxOrderLines == 4

OrderRows == { Row(0, 29), Row(0, 14), Row(0, 44) }

OrderHeaders == { <<NaT, NaT>>, <<0, 44>> }

InitOrder ==
    /\ NoUnion
    /\ NoSolve
    /\ NotCalled
    /\ columns = AllColumns
    /\ \E h \in OrderHeaders : header_start = h[1] /\ header_end = h[2]
    /\ \E n \in 1..MaxOrderLines : group_df \in [1..n -> OrderRows]

\* groups whose lines sit at the ends of the ranges of neighbouring buckets:
\* 20 and 40 days (monthly), 50 and 70 days (bi-monthly), 80 and 100 days
\* (quarterly), and a 45-day line that fits no bucket
MaxTieLines == 4

TieRows ==
    { Row(0, 19), Row(0, 39), Row(0, 49), Row(0, 69), Row(0, 79), Row(0, 99),
      Row(0, 44) }

InitTie ==
    /\ NoUnion
    /\ NoSolve
    /\ NotCalled
    /\ columns = AllColumns
    /\ header_start = NaT /\ header_end = NaT
    /\ \E n \in 1..MaxTieLines : group_df \in [1..n -> TieRows]

\* direct calls of solve_gap: every gap of up to 800 days against the target
\* duration of every standard bucket
MaxSolveGap == 800

BucketTargets == { PERIOD_BUCKETS[i].target : i \in 1..Len(PERIOD_BUCKETS) }

InitSolveGap ==
    /\ NoGroup
    /\ NoUnion
    /\ pc = "input"
    /\ solve_args \in (1..MaxSolveGap) \X BucketTargets
    /\ solve_ret = <<>>

InitUnion ==
    /\ NoGroup
    /\ NoSolve
    /\ pc = "input"
    /\ \E n \in 0..MaxIvs : intervals \in [1..n -> Days \X Days]
    /\ union = <<>>
    /\ reunion = <<>>

-----------------------------------------------------------------------------
(* Actions *)

\* total, merged = compute_interval_union(intervals)
ComputeUnion ==
    /\ pc = "input"
    /\ group_df = <<>>
    /\ union' = compute_interval_union(intervals)
    /\ pc' = "merged"
    /\ UNCHANGED <<group_df, columns, header_start, header_end, ret,
                   intervals, reunion, solve_args, solve_ret>>

\* the merged blocks fed back into compute_interval_union
MergeAgain ==
    /\ pc = "merged"
    /\ reunion' = compute_interval_union(union.merged)
    /\ pc' = "remerged"
    /\ UNCHANGED <<group_df, columns, header_start, header_end, ret,
                   intervals, union, solve_args, solve_ret>>

\* gm, per_line = analyze_group(group_df, header_start, header_end, col)
AnalyzeGroup ==
    /\ pc = "input"
    /\ group_df # <<>>
    /\ ret' = analyze_group(group_df, header_start, header_end, columns)
    /\ pc' = "done"
    /\ UNCHANGED <<group_df, columns, header_start, header_end,
                   intervals, union, reunion, solve_args, solve_ret>>

\* the same group is supplied with its lines in another order and analysed again
AnalyzeShuffled ==
    /\ pc = "done"
    /\ \E p \in Permutations(1..Len(group_df)) :
          /\ group_df' = [i \in 1..Len(group_df) |-> group_df[p[i]]]
          /\ ret' = analyze_group(group_df', header_start, header_end, columns)
    /\ pc' = "shuffled"
    /\ UNCHANGED <<columns, header_start, header_end, intervals, union, reunion,
                   solve_args, solve_ret>>

\* n = solve_gap(gap_days, pattern_days)
SolveGap ==
    /\ pc = "input"
    /\ solve_args # <<>>
    /\ solve_ret' = solve_gap(solve_args[1], solve_args[2])
    /\ pc' = "done"
    /\ UNCHANGED <<group_df, columns, header_start, header_end, ret,
                   intervals, union, reunion, solve_args>>

NextUnion == ComputeUnion \/ MergeAgain

NextGroup == AnalyzeGroup

NextOrder == AnalyzeGroup \/ AnalyzeShuffled

NextSolveGap == SolveGap

SpecUnion == InitUnion /\ [][NextUnion]_vars

SpecActive == InitActive /\ [][NextGroup]_vars

SpecCover == InitCover /\ [][NextGroup]_vars

SpecVote == InitVote /\ [][NextGroup]_vars

SpecConf == InitConf /\ [][NextGroup]_vars

SpecQty == InitQty /\ [][NextGroup]_vars

SpecSolve == InitSolve /\ [][NextGroup]_vars

SpecAlign == InitAlign /\ [][NextGroup]_vars

SpecOrder == InitOrder /\ [][NextOrder]_vars

SpecTie == InitTie /\ [][NextGroup]_vars

SpecSolveGap == InitSolveGap /\ [][NextSolveGap]_vars

-----------------------------------------------------------------------------
(* Coverage union *)

\* the calendar days that lie inside at least one interval of ivs
CoveredDays(ivs) ==
    {d \in 0..(MaxDay + 1) : \E k \in 1..Len(ivs) : ivs[k][1] <= d /\ d <= ivs[k][2]}

WellFormed(ivs) == \A k \in 1..Len(ivs) : ivs[k][2] >= ivs[k][1]

\* C1: for every list of intervals with end >= start, the total returned by
\* compute_interval_union is the number of distinct days inside at least one
\* interval, whatever the order, nesting or overlap of the intervals.
C1_CoverageIsDistinctDays ==
    (pc \in {"merged", "remerged"} /\ WellFormed(intervals))
        => union.total = Cardinality(CoveredDays(intervals))

\* three intervals out of start order, one nested in another, one apart
C1_Witness ==
    /\ pc = "merged"
    /\ WellFormed(intervals)
    /\ Len(intervals) = 3
    /\ intervals[1][1] > intervals[2][1]
    /\ \E i, j \in 1..3 : i # j /\ intervals[i][1] < intervals[j][1]
                                /\ intervals[j][2] < intervals[i][2]
    /\ Len(union.merged) = 2

\* C2: feeding the merged blocks back into compute_interval_union returns the
\* same blocks and the same total, for every input list.
C2_MergeIdempotent ==
    pc = "remerged" => (reunion.merged = union.merged /\ reunion.total = union.total)

\* the first merge joined intervals and left more than one block
C2_Witness ==
    /\ pc = "remerged"
    /\ Len(union.merged) >= 2
    /\ Len(union.merged) < Len(intervals)

-----------------------------------------------------------------------------
(* Coverage, span and gaps of a group *)

Done == pc = "done"

\* rows of the effective-date frame
EffRows == 1..Len(tr.eff_df)

\* every effective interval of the group has end >= start
EffWellFormed == \A k \in EffRows : tr.eff_df[k][2] >= tr.eff_df[k][1]

\* the latest end among the rows before row k of the start-sorted frame
RunningMaxEnd(k) ==
    CHOOSE m \in {tr.eff_df[j][2] : j \in 1..(k-1)} :
        \A j \in 1..(k-1) : tr.eff_df[j][2] <= m

\* the uncovered days between that running maximum and the start of row k
Stretch(k) == (tr.eff_df[k][1] - RunningMaxEnd(k)) - 1

\* a gap is recorded for the stretch before row k
RecordedAt(k) ==
    \E g \in 1..Len(tr.gaps) :
        /\ tr.gaps[g].gap_start = RunningMaxEnd(k) + 1
        /\ tr.gaps[g].gap_end = tr.eff_df[k][1] - 1
        /\ tr.gaps[g].gap_days = Stretch(k)

C4_ToleranceBoundary ==
    Done => \A k \in EffRows \ {1} :
                /\ Stretch(k) = TOLERANCE_DAYS => ~RecordedAt(k)
                /\ Stretch(k) = TOLERANCE_DAYS + 1 => RecordedAt(k)

\* one group with a stretch of 6 days and then a stretch of 5 days
C4_Witness ==
    /\ Done
    /\ Len(tr.eff_df) = 3
    /\ Stretch(2) = TOLERANCE_DAYS + 1
    /\ Stretch(3) = TOLERANCE_DAYS
    /\ gm.gap_count = 1

\* C5 as stated: two consecutive active lines separated by exactly 5 uncovered
\* days, with no other uncovered stretch: the boundary is not counted as a gap
\* and the group's gap_days stays 0; with 6 days the gap is counted.
C5_FiveDayStretchLeavesGapDaysZero ==
    (Done /\ Len(tr.eff_df) = 2 /\ EffWellFormed) =>
        /\ Stretch(2) = TOLERANCE_DAYS => (gm.gap_count = 0 /\ gm.gap_days = 0)
        /\ Stretch(2) = TOLERANCE_DAYS + 1 => (gm.gap_count = 1 /\ gm.gap_days = 6)

-----------------------------------------------------------------------------
(* Which lines are active *)

Lines == 1..Len(group_df)

\* the texts of the inputs that read "cancelled" / "once" once case and
\* surrounding whitespace are ignored
CancelledTexts == {Txt_cancelled, Txt_Cancelled, Txt_CANCELLED_p}
OnceTexts      == {Txt_once, Txt_Once_p}

StateIsCancelled(i) == "state" \in columns /\ group_df[i].state \in CancelledTexts

PeriodIsExactlyOnce(i) == "period" \in columns /\ group_df[i].period = Txt_once

PeriodIsOnce(i) == "period" \in columns /\ group_df[i].period \in OnceTexts

BothDates(i) == group_df[i].start # NaT /\ group_df[i].end # NaT

ShorterThan(i, days) == BothDates(i) /\ group_df[i].end - group_df[i].start < days

C7_PlaceholderBelowFiveDays ==
    Done => \A i \in Lines :
        (BothDates(i) /\ ~StateIsCancelled(i) /\ ~PeriodIsOnce(i)) =>
            ((~tr.active_mask[i]) <=> ShorterThan(i, 5))

-----------------------------------------------------------------------------
(* Lines that cannot be resolved, and the effective intervals *)

\* each missing bound of line i has a header bound to take its place
Resolvable(i) ==
    /\ group_df[i].start # NaT \/ header_start # NaT
    /\ group_df[i].end # NaT \/ header_end # NaT

Unresolvable(i) == tr.active_mask[i] /\ ~Resolvable(i)

ResolvedActive == {i \in Lines : tr.active_mask[i] /\ Resolvable(i)}

\* C8: an active line still lacking a bound after header substitution gives
\* no interval to span/coverage/gap/overlap and no vote, is labelled
\* "open-date" with is_period_outlier N/A, and analyze_group still returns.
C8_UnresolvableLineDropped ==
    Done =>
        /\ ~gm.raised
        /\ (\E i \in Lines : Unresolvable(i)) =>
              /\ {tr.eff_df[k][3] : k \in EffRows} = ResolvedActive
              /\ Len(tr.eff_df) = Cardinality(ResolvedActive)
              /\ Len(tr.intervals) = Cardinality(ResolvedActive)
              /\ {tr.voters[k] : k \in 1..Len(tr.voters)} = ResolvedActive
              /\ Len(tr.voters) = Cardinality(ResolvedActive)
        /\ \A i \in Lines : Unresolvable(i) =>
              /\ per_line[i].line_period_bucket = <<"open-date">>
              /\ per_line[i].is_period_outlier = NA

\* an unresolvable open line next to a resolved line of the same group
C8_Witness ==
    /\ Done
    /\ \E i \in Lines : Unresolvable(i)
    /\ Cardinality(ResolvedActive) >= 1
    /\ gm.actual_coverage_days > 0

\* C9: every effective interval that enters coverage and voting has
\* end >= start, open-start and open-end lines included.
C9_EffectiveEndNotBeforeStart ==
    Done => EffWellFormed

-----------------------------------------------------------------------------
(* The cadence vote *)

Voters == 1..Len(tr.voters)

\* the effective duration of line i, from its row of the effective-date frame
EffDays(i) ==
    LET k == CHOOSE r \in EffRows : tr.eff_df[r][3] = i
    IN  (tr.eff_df[k][2] - tr.eff_df[k][1]) + 1

\* the summed duration of the voting lines that fall into bucket b
MemberDays(b) ==
    SumSeq([k \in Voters |-> IF tr.bucket_names[k] = b THEN EffDays(tr.voters[k]) ELSE 0])

TiedBuckets == {tr.tied_buckets[t] : t \in 1..Len(tr.tied_buckets)}

\* C10: when two or more buckets share the highest vote count, the inferred
\* cadence is the tied bucket whose member lines have the largest summed
\* duration.
C10_TieGoesToLargestTotalDays ==
    (Done /\ Len(tr.tied_buckets) >= 2) =>
        /\ gm.inferred_period_pattern \in TiedBuckets
        /\ \A b \in TiedBuckets : MemberDays(gm.inferred_period_pattern) >= MemberDays(b)

\* a bi-monthly line listed before an annual line, one vote each: annual wins
C10_Witness ==
    /\ Done
    /\ Len(tr.tied_buckets) = 2
    /\ tr.tied_buckets[1] = "bi-monthly"
    /\ gm.inferred_period_pattern = "annual"
    /\ MemberDays("annual") = 365
    /\ MemberDays("bi-monthly") = 60


-----------------------------------------------------------------------------
(* Confidence of the cadence vote *)

\* the votes of the winning bucket
WinningVotes ==
    Cardinality({k \in Voters : tr.bucket_names[k] = gm.inferred_period_pattern})

\* p is num / den rounded to the nearest integer
IsNearest(p, num, den) == 2 * Abs(p * den - num) <= den

-----------------------------------------------------------------------------
(* The representative duration of an irregular group *)

\* the durations of the voting lines bucketed as irregular, in line order
IrregularDays ==
    LET irr == SelectSeq(Indices(tr.voters), LAMBDA k : tr.bucket_names[k] = "irregular")
    IN  [j \in 1..Len(irr) |-> EffDays(tr.voters[irr[j]])]

\* the element at 0-based position j of s in ascending order
Ranked(s, j) ==
    CHOOSE v \in {s[k] : k \in 1..Len(s)} :
        /\ Cardinality({k \in 1..Len(s) : s[k] < v}) <= j
        /\ j < Cardinality({k \in 1..Len(s) : s[k] <= v})

\* C12: when the winning cadence is "irregular", inferred_period_days is the
\* median of the durations of the irregular lines, for odd and even counts
\* (twice the median is the sum of the two middle elements).
C12_IrregularDaysIsMedian ==
    (Done /\ gm.inferred_period_pattern = "irregular" /\ Len(IrregularDays) >= 1) =>
        LET n == Len(IrregularDays)
        IN  /\ Len(gm.inferred_period_days) = 1
            /\ 2 * gm.inferred_period_days[1] =
                   Ranked(IrregularDays, (n - 1) \div 2) + Ranked(IrregularDays, n \div 2)

-----------------------------------------------------------------------------
(* The quantity vote *)

ActiveLines == {i \in Lines : tr.active_mask[i]}

HasQty(i) == "qty" \in columns /\ group_df[i].qty # QtyNaN

\* the quantities that occur among the lines of S
QtysOf(S) == {group_df[i].qty : i \in {j \in S : HasQty(j)}}

\* how many lines of S have quantity v
QtyCount(S, v) == Cardinality({i \in S : HasQty(i) /\ group_df[i].qty = v})

\* v wins the vote among the lines of S: no value occurs more often, and
\* no value that occurs as often is larger
WinsQtyVote(S, v) ==
    /\ v \in QtysOf(S)
    /\ \A w \in QtysOf(S) :
          \/ QtyCount(S, w) < QtyCount(S, v)
          \/ QtyCount(S, w) = QtyCount(S, v) /\ w <= v

\* C13: canonical_qty is the non-null quantity with the highest count among
\* the lines that vote (the active lines with a quantity), the larger value
\* winning between equal counts, and qty_confidence_pct is the winning count
\* over the active line count, times 100, as the nearest integer.
C13_CanonicalQtyByCountThenValue ==
    (Done /\ gm.group_active_line_count > 0) =>
        IF QtysOf(ActiveLines) = {}
        THEN gm.canonical_qty = NAval /\ gm.qty_confidence_pct = NAval
        ELSE /\ Len(gm.canonical_qty) = 1
             /\ WinsQtyVote(ActiveLines, gm.canonical_qty[1])
             /\ Len(gm.qty_confidence_pct) = 1
             /\ IsNearest(gm.qty_confidence_pct[1],
                          100 * QtyCount(ActiveLines, gm.canonical_qty[1]),
                          gm.group_active_line_count)

\* quantities 100, 100, 200, 200 in that order: canonical 200, confidence 50
C13_Witness ==
    /\ Done
    /\ tr.active_qtys = <<100, 100, 200, 200>>
    /\ gm.group_active_line_count = 4
    /\ gm.canonical_qty = <<200>>
    /\ gm.qty_confidence_pct = <<50>>

\* C14: in a group with a canonical quantity, is_qty_outlier is YES for an
\* active line whose quantity differs from it, NO for an active line whose
\* quantity equals it, and N/A for every inactive line and every line that
\* has no quantity.
C14_QtyOutlierFlag ==
    (Done /\ gm.canonical_qty # NAval) =>
        \A i \in Lines :
            per_line[i].is_qty_outlier =
                IF ~tr.active_mask[i] \/ ~HasQty(i) THEN NA
                ELSE IF group_df[i].qty = gm.canonical_qty[1] THEN "NO"
                ELSE "YES"

-----------------------------------------------------------------------------
(* A group without active lines *)

\* a figure that holds no number
NoNumber(x) == x \notin Int

\* C16: with zero active lines analyze_group raises no error, every computed
\* metric (span, coverage, gap and overlap figures, cadence, quantity,
\* alignment, lines-to-add) is in the not-available state, and every line's
\* outlier flags are N/A.
C16_ZeroActiveAllNotAvailable ==
    (Done /\ gm.group_active_line_count = 0) =>
        /\ ~gm.raised
        /\ \A i \in Lines : /\ per_line[i].is_period_outlier = NA
                            /\ per_line[i].is_qty_outlier = NA
        /\ gm.inferred_period_pattern = NA
        /\ gm.inferred_period_days = NAval
        /\ gm.period_confidence_pct = NAval
        /\ gm.canonical_qty = NAval
        /\ gm.qty_confidence_pct = NAval
        /\ gm.header_aligned = NA
        /\ gm.start_alignment.kind = NA
        /\ gm.end_alignment.kind = NA
        /\ gm.lines_to_add = NoGap
        /\ NoNumber(gm.group_span_days)
        /\ NoNumber(gm.actual_coverage_days)
        /\ NoNumber(gm.gap_days)
        /\ NoNumber(gm.gap_count)
        /\ NoNumber(gm.overlap_days)
        /\ NoNumber(gm.overlap_count)

-----------------------------------------------------------------------------
(* Gaps and the lines that fill them *)

GapIdx == 1..Len(gm.gap_list)

Irregular == gm.inferred_period_pattern = "irregular"

\* the target duration of the winning cadence, from the bucket table
TargetDays ==
    LET i == CHOOSE j \in 1..Len(PERIOD_BUCKETS) :
                 PERIOD_BUCKETS[j].name = gm.inferred_period_pattern
    IN  PERIOD_BUCKETS[i].target

\* n lines of t days fill a gap of G days within the tolerance; such an n is
\* the integer nearest to G / t, since TOLERANCE_DAYS is below half of any t
Fills(G, t, n) == n >= 1 /\ Abs(G - n * t) <= TOLERANCE_DAYS

\* the number of lines that solves a gap of G days, 0 when none does
FillCount(G, t) ==
    IF \E n \in 1..(G \div t + 1) : Fills(G, t, n)
    THEN CHOOSE n \in 1..(G \div t + 1) : Fills(G, t, n)
    ELSE 0

\* C17: a gap of size G is unsolved when the cadence is irregular; otherwise
\* it is solved by n = round(G / target_days) lines exactly when n >= 1 and
\* |G - n * target_days| <= TOLERANCE_DAYS, and unsolved in every other case.
C17_GapSolvedByNearestMultiple ==
    Done => \A k \in GapIdx :
        LET G   == gm.gap_list[k].gap_days
            sol == gm.solution_list[k]
        IN  IF Irregular THEN sol = <<>>
            ELSE /\ FillCount(G, TargetDays) = 0 => sol = <<>>
                 /\ FillCount(G, TargetDays) > 0 =>
                       /\ sol = <<FillCount(G, TargetDays)>>
                       /\ IsNearest(sol[1], G, TargetDays)

\* quarterly lines with a gap of 183 days between them: solved by 2 lines
C17_Witness ==
    /\ Done
    /\ gm.inferred_period_pattern = "quarterly"
    /\ \E k \in GapIdx : /\ gm.gap_list[k].kind = "internal"
                         /\ gm.gap_list[k].gap_days = 183
                         /\ gm.solution_list[k] = <<2>>
    /\ \E k \in GapIdx : /\ gm.gap_list[k].kind = "after group"
                         /\ gm.solution_list[k] = <<>>

\* the lines the solved gaps ask for, counted from the gap sizes
RECURSIVE FillSum(_)
FillSum(k) ==
    IF k = 0 THEN 0
    ELSE FillSum(k - 1) +
         (IF Irregular THEN 0 ELSE FillCount(gm.gap_list[k].gap_days, TargetDays))

\* C18: for a group with an active line, lines_to_add is "no gap" exactly when
\* the unified gap list is empty, 0 when gaps exist but none is solved (every
\* irregular group with gaps included), and otherwise the sum of n over the
\* solved gaps.
C18_LinesToAddOrNoGap ==
    (Done /\ gm.group_active_line_count >= 1) =>
        /\ (gm.lines_to_add = NoGap) <=> (gm.gap_list = <<>>)
        /\ gm.gap_list # <<>> => gm.lines_to_add = <<FillSum(Len(gm.gap_list))>>
        /\ (gm.gap_list # <<>> /\ Irregular) => gm.lines_to_add = <<0>>

\* three gaps of which two are solved: 1 + 3 lines
C18_Witness ==
    /\ Done
    /\ Len(gm.gap_list) = 3
    /\ \E k \in GapIdx : gm.solution_list[k] = <<>>
    /\ \E k \in GapIdx : gm.solution_list[k] = <<1>>
    /\ \E k \in GapIdx : gm.solution_list[k] = <<3>>
    /\ gm.lines_to_add = <<4>>


-----------------------------------------------------------------------------
(* Header alignment *)

\* the coverage window of the group: earliest effective start, latest
\* effective end
CoverageStart ==
    CHOOSE d \in {tr.eff_df[k][1] : k \in EffRows} : \A k \in EffRows : d <= tr.eff_df[k][1]

CoverageEnd ==
    CHOOSE d \in {tr.eff_df[k][2] : k \in EffRows} : \A k \in EffRows : tr.eff_df[k][2] <= d

\* header start, header end and the coverage window are all known
AlignmentEvaluated ==
    header_start # NaT /\ header_end # NaT /\ tr.eff_df # <<>>

\* C19: alignment is evaluated only when header start, header end and the
\* coverage window are all known, otherwise header_aligned, start_alignment
\* and end_alignment are N/A; when evaluated, header_aligned is YES exactly
\* when both |coverage_start - header_start| <= 5 and
\* |coverage_end - header_end| <= 5, and NO otherwise.
C19_HeaderAlignment ==
    Done =>
        IF AlignmentEvaluated
        THEN /\ gm.header_aligned =
                   IF /\ Abs(CoverageStart - header_start) <= TOLERANCE_DAYS
                      /\ Abs(CoverageEnd - header_end) <= TOLERANCE_DAYS
                   THEN "YES" ELSE "NO"
             /\ gm.start_alignment.kind # NA
             /\ gm.end_alignment.kind # NA
        ELSE /\ gm.header_aligned = NA
             /\ gm.start_alignment.kind = NA
             /\ gm.end_alignment.kind = NA

\* coverage starting 5 days before the header and ending 5 days after it
C19_Witness ==
    /\ Done
    /\ AlignmentEvaluated
    /\ CoverageStart - header_start = -TOLERANCE_DAYS
    /\ CoverageEnd - header_end = TOLERANCE_DAYS
    /\ gm.header_aligned = "YES"

-----------------------------------------------------------------------------
(* Days covered more than once *)

\* the days covered by two or more effective intervals
DaysCoveredTwice ==
    { d \in CoverageStart..CoverageEnd :
         Cardinality({k \in EffRows : tr.eff_df[k][1] <= d /\ d <= tr.eff_df[k][2]}) >= 2 }

\* C20: overlap_days is the number of days covered by more than one active
\* line, also when three or more lines cover the same day.
C20_OverlapDaysCountsDays ==
    (Done /\ tr.eff_df # <<>> /\ EffWellFormed) =>
        gm.overlap_days = Cardinality(DaysCoveredTwice)

-----------------------------------------------------------------------------
(* Order of the lines *)

\* C21: the group-level result does not depend on the order in which the
\* lines are supplied: analysing the same lines in another order, with the
\* same header, gives the same group metrics, the inferred cadence included.
C21_OrderIndependent ==
    [][(pc = "done" /\ pc' = "shuffled") => ret'.gm = ret.gm]_vars


-----------------------------------------------------------------------------
(* Renewable lines beside dated lines *)

\* an active line with neither date beside an active line with both dates
RenewableBesideDated ==
    /\ \E i \in ActiveLines : group_df[i].start = NaT /\ group_df[i].end = NaT
    /\ \E i \in ActiveLines : BothDates(i)

\* the group's result carries the flag for a renewable line beside dated lines
FlagRaised ==
    "has_infinite_overlap" \in DOMAIN gm /\ gm.has_infinite_overlap

\* C23: the result of a group carries the flag
\* fully-renewable-and-coexists-with-dated-lines exactly when an active line
\* with both dates null coexists with an active dated line, and overlap_days
\* is then positive.
C23_RenewableOverlapFlagged ==
    Done =>
        /\ FlagRaised <=> RenewableBesideDated
        /\ RenewableBesideDated => gm.overlap_days > 0


-----------------------------------------------------------------------------
(* Sign of overlap_days *)

\* line j lies inside line i although it comes before it in the group
NestedOutOfOrder(i, j) ==
    /\ j < i
    /\ BothDates(i) /\ BothDates(j)
    /\ group_df[i].start < group_df[j].start
    /\ group_df[j].end < group_df[i].end

\* C24: overlap_days is never negative, whatever the nesting and order of the
\* lines' intervals.
C24_OverlapDaysNotNegative ==
    Done => gm.overlap_days >= 0

\* an active line nested in an active line that comes after it
C24_Witness ==
    /\ Done
    /\ \E i, j \in ActiveLines : NestedOutOfOrder(i, j)
    /\ gm.overlap_days > 0


-----------------------------------------------------------------------------
(* Header-edge gaps *)

\* the entries of the unified gap list of one kind, as a sequence of sizes
GapsOfKind(kind) ==
    LET idx == SelectSeq(Indices(gm.gap_list), LAMBDA k : gm.gap_list[k].kind = kind)
    IN  [j \in 1..Len(idx) |-> gm.gap_list[idx[j]].gap_days]

\* days by which the coverage starts after the header start / ends after the
\* header end
StartDiff == CoverageStart - header_start
EndDiff   == CoverageEnd - header_end

\* C25: the unified gap list holds the internal gaps and, besides them, a
\* start gap of start_diff days exactly when start_diff > TOLERANCE_DAYS and
\* an end gap of |end_diff| days exactly when end_diff < -TOLERANCE_DAYS; a
\* group that starts early or ends late, or whose header window is not fully
\* known, gets no header-edge gap.
C25_HeaderEdgeGaps ==
    Done =>
        /\ GapsOfKind("internal") = [k \in 1..Len(tr.gaps) |-> tr.gaps[k].gap_days]
        /\ Len(gm.gap_list) = Len(GapsOfKind("internal"))
               + Len(GapsOfKind("before group")) + Len(GapsOfKind("after group"))
        /\ GapsOfKind("before group") =
               IF AlignmentEvaluated /\ StartDiff > TOLERANCE_DAYS
               THEN <<StartDiff>> ELSE <<>>
        /\ GapsOfKind("after group") =
               IF AlignmentEvaluated /\ EndDiff < -TOLERANCE_DAYS
               THEN <<Abs(EndDiff)>> ELSE <<>>

\* a group with a gap inside that also starts 6 days late and ends 6 days early
C25_Witness ==
    /\ Done
    /\ AlignmentEvaluated
    /\ StartDiff = TOLERANCE_DAYS + 1
    /\ EndDiff = -(TOLERANCE_DAYS + 1)
    /\ Len(tr.gaps) = 1
    /\ Len(gm.gap_list) = 3


-----------------------------------------------------------------------------
(* Period outlier flags *)

\* the cadence bucket of the effective duration of a resolved active line
BucketOfLine(i) == map_to_bucket(EffDays(i)).name

\* the lines flagged NO
NotOutliers == {i \in Lines : per_line[i].is_period_outlier = "NO"}

\* C26: in a group with at least one voting line, is_period_outlier is YES
\* for every resolved active line whose bucket differs from the winning
\* bucket, NO for every resolved active line in the winning bucket and N/A
\* for inactive and unresolvable lines; the number of NO lines is the winning
\* vote count from which period_confidence_pct is computed.
C26_PeriodOutlierFlags ==
    (Done /\ ResolvedActive # {}) =>
        /\ \A i \in Lines :
              per_line[i].is_period_outlier =
                 IF i \in ResolvedActive
                 THEN IF BucketOfLine(i) # gm.inferred_period_pattern
                      THEN "YES" ELSE "NO"
                 ELSE NA
        /\ Cardinality(NotOutliers) = tr.winning_count
        /\ IsNearest(gm.period_confidence_pct[1],
                     100 * Cardinality(NotOutliers), Cardinality(ActiveLines))

\* a group with a conforming line, an outlier and an unresolvable line
C26_Witness ==
    /\ Done
    /\ \E i \in ResolvedActive : per_line[i].is_period_outlier = "YES"
    /\ \E i \in ResolvedActive : per_line[i].is_period_outlier = "NO"
    /\ \E i \in Lines : Unresolvable(i) /\ per_line[i].is_period_outlier = NA


-----------------------------------------------------------------------------
(* Ties between standard buckets *)

\* the target duration of a standard bucket, from the bucket table
TargetOf(b) ==
    LET i == CHOOSE j \in 1..Len(PERIOD_BUCKETS) : PERIOD_BUCKETS[j].name = b
    IN  PERIOD_BUCKETS[i].target

\* two or more buckets share the highest vote count and none is irregular
StandardTie ==
    Len(tr.tied_buckets) >= 2 /\ "irregular" \notin TiedBuckets

\* C27: when the buckets tied for the highest vote count are all standard
\* buckets, the inferred cadence is the tied bucket with the largest
\* target_days, whatever durations within the bucket ranges the lines have.
C27_StandardTieGoesToLargerTarget ==
    (Done /\ StandardTie) =>
        /\ gm.inferred_period_pattern \in TiedBuckets
        /\ \A b \in TiedBuckets : TargetOf(b) <= TargetOf(gm.inferred_period_pattern)

\* two 40-day monthly lines tie with two 50-day bi-monthly lines, the monthly
\* lines first
C27_Witness ==
    /\ Done
    /\ StandardTie
    /\ tr.winning_count = 2
    /\ tr.durations = <<40, 40, 50, 50>>
    /\ gm.inferred_period_pattern = "bi-monthly"


-----------------------------------------------------------------------------
(* Recorded gaps and the blocks of the coverage union *)

\* the uncovered days between merged block k and the block after it
BlockStretch(k) == (tr.merged[k + 1][1] - tr.merged[k][2]) - 1

\* the blocks followed by a stretch longer than the tolerance, in order
LongStretches ==
    SelectSeq([k \in 1..(Len(tr.merged) - 1) |-> k],
              LAMBDA k : BlockStretch(k) > TOLERANCE_DAYS)

\* day d lies inside an effective interval
Covered(d) == \E k \in EffRows : tr.eff_df[k][1] <= d /\ d <= tr.eff_df[k][2]

\* C28: when every effective interval has end >= start, the gaps recorded by
\* detect_gaps are exactly the stretches between consecutive blocks of the
\* coverage union that are longer than TOLERANCE_DAYS, running from the day
\* after the earlier block to the day before the later one; so no recorded
\* gap contains a covered day and the recorded sizes sum to at most gap_days.
C28_GapsAreLongStretchesBetweenBlocks ==
    (Done /\ tr.eff_df # <<>> /\ EffWellFormed) =>
        /\ tr.gaps = [j \in 1..Len(LongStretches) |->
                        [gap_start |-> tr.merged[LongStretches[j]][2] + 1,
                         gap_end   |-> tr.merged[LongStretches[j] + 1][1] - 1,
                         gap_days  |-> BlockStretch(LongStretches[j])]]
        /\ \A g \in 1..Len(tr.gaps) :
              \A d \in tr.gaps[g].gap_start..tr.gaps[g].gap_end : ~Covered(d)
        /\ SumSeq([g \in 1..Len(tr.gaps) |-> tr.gaps[g].gap_days]) <= gm.gap_days

\* three blocks: a recorded stretch of 6 days, then a stretch of 5 days that
\* is not recorded
C28_Witness ==
    /\ Done
    /\ EffWellFormed
    /\ Len(tr.merged) = 3
    /\ BlockStretch(1) = TOLERANCE_DAYS + 1
    /\ BlockStretch(2) = TOLERANCE_DAYS
    /\ Len(tr.gaps) = 1


-----------------------------------------------------------------------------
(* overlap_count against overlap_days *)

-----------------------------------------------------------------------------
(* solve_gap on every gap size and standard target *)

\* the line counts n >= 1 that fill a gap of G days with lines of T days
\* (n * T <= G + TOLERANCE_DAYS bounds n by G + TOLERANCE_DAYS)
FillsOf(G, T) == { n \in 1..(G + TOLERANCE_DAYS) : Fills(G, T, n) }

\* G / T rounded to the nearest integer, a half going up / going down
RoundHalfUp(G, T)   == (2 * G + T) \div (2 * T)
RoundHalfDown(G, T) == (2 * G + T - 1) \div (2 * T)

\* what solve_gap returns if its rounding gives n
SolveBy(G, T, n) == IF Fills(G, T, n) THEN <<n>> ELSE <<>>

\* C30: for every gap of G >= 1 days and every standard bucket target T, at
\* most one n >= 1 has |G - n * T| <= TOLERANCE_DAYS; solve_gap(G, T) returns
\* that n when it exists and None otherwise, whichever way a ratio ending in
\* .5 is rounded.
C30_SolveGapUniqueFit ==
    (pc = "done" /\ solve_args # <<>>) =>
        LET G == solve_args[1]
            T == solve_args[2]
        IN  /\ Cardinality(FillsOf(G, T)) <= 1
            /\ solve_ret = IF FillsOf(G, T) = {} THEN <<>>
                           ELSE <<CHOOSE n \in FillsOf(G, T) : TRUE>>
            /\ solve_ret = SolveBy(G, T, RoundHalfUp(G, T))
            /\ solve_ret = SolveBy(G, T, RoundHalfDown(G, T))

\* a gap 5 days short of two annual lines
C30_Witness ==
    /\ pc = "done"
    /\ solve_args = <<725, 365>>
    /\ solve_ret = <<2>>

====
